---------------------------- MODULE Spec2Model ----------------------------
(*
  Model of the package-registry search handler (searchHandler and
  getPackageOutput) as a state machine.

  Strings that the code orders, splits or parses (package names, version
  strings, the composite sort keys, the "kibana" and "package" query
  parameters) are sequences of byte values, so that sort.Strings,
  strings.Split and the semantic-version parser are computed as the code
  computes them.  Strings that the code only copies or tests for equality
  (descriptions, categories, types) are plain TLA+ strings.
*)
EXTENDS Integers, Sequences, FiniteSets, TLC

-----------------------------------------------------------------------------
(* Byte strings *)

\* Go compares strings bytewise: the first differing byte decides, and a
\* proper prefix is smaller.
RECURSIVE StrLess(_, _)
StrLess(s, t) ==
    IF s = <<>> THEN t # <<>>
    ELSE IF t = <<>> THEN FALSE
    ELSE IF Head(s) # Head(t) THEN Head(s) < Head(t)
    ELSE StrLess(Tail(s), Tail(t))

\* Index of the first occurrence of byte c in s, 0 when absent
\* (strings.IndexRune, shifted by one).
IndexByte(s, c) ==
    LET hits == { i \in 1..Len(s) : s[i] = c } IN
    IF hits = {} THEN 0 ELSE CHOOSE i \in hits : \A j \in hits : i <= j

\* strings.Split(s, sep) for a one-byte separator: every separator cuts.
RECURSIVE Split(_, _)
Split(s, c) ==
    LET i == IndexByte(s, c) IN
    IF i = 0 THEN <<s>>
    ELSE <<SubSeq(s, 1, i - 1)>> \o Split(SubSeq(s, i + 1, Len(s)), c)

\* strings.SplitN(s, sep, n) for n > 0: at most n parts, the last one
\* holding the unsplit remainder.
RECURSIVE SplitN(_, _, _)
SplitN(s, c, n) ==
    LET i == IndexByte(s, c) IN
    IF n <= 1 \/ i = 0 THEN <<s>>
    ELSE <<SubSeq(s, 1, i - 1)>> \o SplitN(SubSeq(s, i + 1, Len(s)), c, n - 1)

\* Insertion without comparison.
InsertFirst(k, sorted) == <<k>> \o sorted

\* Insertion of one string into an ascending sequence of strings.
RECURSIVE InsertSorted(_, _)
InsertSorted(k, sorted) ==
    IF sorted = <<>> THEN <<k>>
    ELSE IF StrLess(Head(sorted), k) THEN <<Head(sorted)>> \o InsertSorted(k, Tail(sorted))
    ELSE <<k>> \o sorted

RECURSIVE SortAscending(_)
SortAscending(keys) ==
    IF keys = <<>> THEN <<>>
    ELSE InsertSorted(Head(keys), SortAscending(Tail(keys)))

\* The keys left in the order in which the map iteration produced them.
UnsortedStrings(keys) == keys

\* The keys in descending order.
RECURSIVE Reverse(_)
Reverse(q) == IF q = <<>> THEN <<>> ELSE Reverse(Tail(q)) \o <<Head(q)>>

SortDescending(keys) == Reverse(SortAscending(keys))

\* sort.Strings(keys): ascending bytewise order.
sortStrings(keys) == SortAscending(keys)

-----------------------------------------------------------------------------
(* Semantic versions (github.com/blang/semver, as used by semver.New) *)

IsDigit(c) == c >= 48 /\ c <= 57
IsAlphaNumByte(c) ==
    IsDigit(c) \/ (c >= 65 /\ c <= 90) \/ (c >= 97 /\ c <= 122) \/ c = 45

containsOnlyNumbers(s) == \A i \in 1..Len(s) : IsDigit(s[i])
containsOnlyAlphanum(s) == \A i \in 1..Len(s) : IsAlphaNumByte(s[i])
hasLeadingZeroes(s) == Len(s) > 1 /\ s[1] = 48

RECURSIVE ParseUint(_)
ParseUint(s) ==
    IF s = <<>> THEN 0
    ELSE 10 * ParseUint(SubSeq(s, 1, Len(s) - 1)) + (s[Len(s)] - 48)

\* "18446744073709551615", the largest uint64 in decimal.
MaxUint64Text ==
    <<49, 56, 52, 52, 54, 55, 52, 52, 48, 55, 51, 55, 48, 57, 53, 53, 49, 54, 49, 53>>

RECURSIVE StripLeadingZeroes(_)
StripLeadingZeroes(s) ==
    IF s # <<>> /\ s[1] = 48 THEN StripLeadingZeroes(Tail(s)) ELSE s

\* err == nil after strconv.ParseUint(s, 10, 64): s is a non-empty text of
\* digits (ErrSyntax otherwise) whose value is below 2^64 (ErrRange
\* otherwise).
ParseUintOk(s) ==
    /\ s # <<>>
    /\ containsOnlyNumbers(s)
    /\ LET t == StripLeadingZeroes(s) IN
       \/ Len(t) < Len(MaxUint64Text)
       \/ Len(t) = Len(MaxUint64Text) /\ ~StrLess(MaxUint64Text, t)

\* A numeric part of a version: digits only, no leading zero, and accepted
\* by strconv.ParseUint.
ValidNumber(s) == containsOnlyNumbers(s) /\ ~hasLeadingZeroes(s) /\ ParseUintOk(s)

\* NewPRVersion: a pre-release identifier is a number without leading zero
\* that strconv.ParseUint accepts, or a non-empty alphanumeric word.
ValidPRVersion(s) ==
    /\ s # <<>>
    /\ IF containsOnlyNumbers(s)
       THEN ~hasLeadingZeroes(s) /\ ParseUintOk(s)
       ELSE containsOnlyAlphanum(s)

ValidBuild(s) == s # <<>> /\ containsOnlyAlphanum(s)

\* The text of the patch part before any "+build" and "-prerelease" suffix.
PatchAndRest(patchStr) ==
    LET b == IndexByte(patchStr, 43)
        noBuild == IF b = 0 THEN patchStr ELSE SubSeq(patchStr, 1, b - 1)
        build == IF b = 0 THEN <<>>
                 ELSE Split(SubSeq(patchStr, b + 1, Len(patchStr)), 46)
        p == IndexByte(noBuild, 45)
        patch == IF p = 0 THEN noBuild ELSE SubSeq(noBuild, 1, p - 1)
        pre == IF p = 0 THEN <<>>
               ELSE Split(SubSeq(noBuild, p + 1, Len(noBuild)), 46)
    IN [patch |-> patch, pre |-> pre, build |-> build]

\* semver.Parse succeeds: Major.Minor.Patch[-pre][+build].
ParsesAsVersion(s) ==
    /\ s # <<>>
    /\ LET parts == SplitN(s, 46, 3) IN
       /\ Len(parts) = 3
       /\ ValidNumber(parts[1])
       /\ ValidNumber(parts[2])
       /\ LET r == PatchAndRest(parts[3]) IN
          /\ ValidNumber(r.patch)
          /\ \A i \in 1..Len(r.pre) : ValidPRVersion(r.pre[i])
          /\ \A i \in 1..Len(r.build) : ValidBuild(r.build[i])

\* err == nil after semver.New(v).
semverNewOk(s) == ParsesAsVersion(s)

\* The parsed version; build metadata takes no part in precedence.
semverNew(s) ==
    LET parts == SplitN(s, 46, 3)
        r == PatchAndRest(parts[3])
    IN [Major |-> ParseUint(parts[1]), Minor |-> ParseUint(parts[2]),
        Patch |-> ParseUint(r.patch), Pre |-> r.pre]

\* Precedence of two pre-release identifiers: -1, 0 or 1.  Numbers compare
\* numerically and sort before words; words compare bytewise.
PRCompare(a, b) ==
    IF containsOnlyNumbers(a) /\ containsOnlyNumbers(b)
    THEN IF ParseUint(a) = ParseUint(b) THEN 0
         ELSE IF ParseUint(a) < ParseUint(b) THEN -1 ELSE 1
    ELSE IF containsOnlyNumbers(a) THEN -1
    ELSE IF containsOnlyNumbers(b) THEN 1
    ELSE IF a = b THEN 0 ELSE IF StrLess(a, b) THEN -1 ELSE 1

RECURSIVE PreCompare(_, _)
PreCompare(p, q) ==
    IF p = <<>> /\ q = <<>> THEN 0
    ELSE IF p = <<>> THEN -1
    ELSE IF q = <<>> THEN 1
    ELSE LET c == PRCompare(Head(p), Head(q)) IN
         IF c # 0 THEN c ELSE PreCompare(Tail(p), Tail(q))

\* compare(a, b): major, then minor, then patch, numerically; a version with
\* a pre-release tag is less than the same version without one.
Compare(a, b) ==
    IF a.Major # b.Major THEN (IF a.Major > b.Major THEN 1 ELSE -1)
    ELSE IF a.Minor # b.Minor THEN (IF a.Minor > b.Minor THEN 1 ELSE -1)
    ELSE IF a.Patch # b.Patch THEN (IF a.Patch > b.Patch THEN 1 ELSE -1)
    ELSE IF a.Pre = <<>> /\ b.Pre = <<>> THEN 0
    ELSE IF a.Pre = <<>> THEN 1
    ELSE IF b.Pre = <<>> THEN -1
    ELSE PreCompare(a.Pre, b.Pre)

-----------------------------------------------------------------------------
(* util.Package and its methods *)

\* The zero value of util.Package, which a lookup of a missing map key yields.
ZeroPackage ==
    [Name |-> <<>>, Version |-> <<>>, Description |-> "", Type |-> "",
     Title |-> <<>>, Icons |-> <<>>, Internal |-> FALSE, Categories |-> {},
     Kibana |-> <<>>]

\* pp.IsNewer(p): pp's version is greater than p's by semantic-version
\* precedence.
IsNewer(pp, p) == Compare(semverNew(pp.Version), semverNew(p.Version)) = 1

\* p.HasCategory(category).
HasCategory(p, c) == c \in p.Categories

\* p.HasKibanaVersion(version): no constraint, or a caret constraint "^base"
\* that the version satisfies (same major, not below the base).
HasKibanaVersion(p, version) ==
    \/ p.Kibana = <<>>
    \/ LET base == semverNew(Tail(p.Kibana)) IN
       /\ version.Major = base.Major
       /\ Compare(version, base) >= 0

\* m.GetDownloadPath() and m.GetUrlPath(): derived from name and version.
GetDownloadPath(m) == <<"download", m.Name, m.Version>>
GetUrlPath(m) == <<"path", m.Name, m.Version>>

-----------------------------------------------------------------------------
(* The package sets and the queries explored *)

MaxPackages == 3
MaxRequests == 2

\* "a", "a1", "ab"
NameA == <<97>>
NameA1 == <<97, 49>>
NameAB == <<97, 98>>
\* "1.0.0", "1.2.0", "1.10.0"
V100 == <<49, 46, 48, 46, 48>>
V120 == <<49, 46, 50, 46, 48>>
V1100 == <<49, 46, 49, 48, 46, 48>>
\* "^7.0.0"
Caret700 == <<94, 55, 46, 48, 46, 48>>

\* The manifests the loader may find.  The last one claims the same name and
\* version as the first one, with different content; "a" is a proper prefix
\* of "a1", and "1.10.0" is newer than "1.2.0" but sorts before it as text.
PackageUniverse ==
    { [Name |-> NameA, Version |-> V100, Description |-> "first", Type |-> "integration",
       Title |-> <<>>, Icons |-> <<>>, Internal |-> FALSE,
       Categories |-> {"logs"}, Kibana |-> <<>>],
      [Name |-> NameA, Version |-> V1100, Description |-> "tenth", Type |-> "integration",
       Title |-> <<"A">>, Icons |-> <<>>, Internal |-> FALSE,
       Categories |-> {"logs"}, Kibana |-> Caret700],
      [Name |-> NameA, Version |-> V120, Description |-> "second", Type |-> "integration",
       Title |-> <<>>, Icons |-> <<"icon.svg">>, Internal |-> TRUE,
       Categories |-> {"metrics"}, Kibana |-> <<>>],
      [Name |-> NameA1, Version |-> V100, Description |-> "other", Type |-> "solution",
       Title |-> <<"A1">>, Icons |-> <<>>, Internal |-> FALSE,
       Categories |-> {"logs", "metrics"}, Kibana |-> <<>>],
      [Name |-> NameAB, Version |-> V120, Description |-> "last", Type |-> "integration",
       Title |-> <<>>, Icons |-> <<>>, Internal |-> FALSE,
       Categories |-> {"logs"}, Kibana |-> Caret700],
      [Name |-> NameA, Version |-> V100, Description |-> "copy", Type |-> "integration",
       Title |-> <<"Copy">>, Icons |-> <<>>, Internal |-> FALSE,
       Categories |-> {"metrics"}, Kibana |-> <<>>] }

PackageLists == UNION { [1..n -> PackageUniverse] : n \in 0..MaxPackages }

\* Raw values of the URL parameters; the empty string is what url.Values.Get
\* returns for an absent parameter.  "7.1.0" and "6.8.0" parse; "7.x",
\* "7.0" and "18446744073709551616.0.0", whose major is 2^64, do not.
KibanaParams ==
    { <<>>, <<55, 46, 49, 46, 48>>, <<54, 46, 56, 46, 48>>, <<55, 46, 120>>,
      <<55, 46, 48>>,
      <<49, 56, 52, 52, 54, 55, 52, 52, 48, 55, 51, 55, 48, 57, 53, 53, 49, 54, 49, 54,
        46, 48, 46, 48>> }
CategoryParams == { "", "logs" }
PackageParams == { <<>>, NameA }
AllParams == { "yes", "true" }
InternalParams == { "", "1" }

Queries ==
    [kibana : KibanaParams, category : CategoryParams, package : PackageParams,
     all : AllParams, internal : InternalParams]

\* strconv.ParseBool; the handler drops its error, which leaves false.
ParseBool(v) == v \in {"1", "t", "T", "TRUE", "true", "True"}

-----------------------------------------------------------------------------
(* Go maps *)

MapPut(m, k, v) == [x \in (DOMAIN m) \cup {k} |-> IF x = k THEN v ELSE m[x]]
MapDelete(m, k) == [x \in (DOMAIN m) \ {k} |-> m[x]]

\* The orders in which a range statement may produce the keys of a map.
Perms(S) ==
    { f \in [1..Cardinality(S) -> S] :
        \A i, j \in 1..Cardinality(S) : i # j => f[i] # f[j] }

\* One order for the outer map and one for each inner map.
RangeOrders(pl) ==
    [ outer : Perms(DOMAIN pl),
      inner : { f \in [DOMAIN pl -> UNION { Perms(DOMAIN pl[n]) : n \in DOMAIN pl }] :
                  \A n \in DOMAIN pl : f[n] \in Perms(DOMAIN pl[n]) } ]

\* The (name, version) pairs in the order the nested range statements of
\* searchHandler and getPackageOutput reach them.
RECURSIVE Iteration(_, _)
Iteration(outer, inner) ==
    IF outer = <<>> THEN <<>>
    ELSE [i \in 1..Len(inner[Head(outer)]) |-> <<Head(outer), inner[Head(outer)][i]>>]
         \o Iteration(Tail(outer), inner)

\* packagesList[name][version], the zero value when a key is missing.
lookupPackage(pl, n, v) ==
    IF n \in DOMAIN pl /\ v \in DOMAIN pl[n] THEN pl[n][v] ELSE ZeroPackage

-----------------------------------------------------------------------------
(* searchHandler *)

\* No value of the kibana parameter stops the handler.
rejectsNothing(v) == FALSE

\* The kibana parameter is set and semver.New fails on it.
rejectsKibana(v) == v # <<>> /\ ~semverNewOk(v)

\* The local kibanaVersion: nil (the empty sequence) or the parsed version.
parseKibana(v) ==
    IF v # <<>> /\ semverNewOk(v) THEN <<semverNew(v)>> ELSE <<>>

\* The tests without the one on internal packages.
passesWithoutVisibility(p, int, cat, kv, pq) ==
    /\ ~(cat # "" /\ ~HasCategory(p, cat))
    /\ (kv # <<>> => HasKibanaVersion(p, kv[1]))
    /\ ~(pq # <<>> /\ pq # p.Name)

\* The four "continue" tests of the loop: TRUE when p goes on to the map.
passesFilters(p, int, cat, kv, pq) ==
    /\ ~(p.Internal /\ ~int)
    /\ ~(cat # "" /\ ~HasCategory(p, cat))
    /\ (kv # <<>> => HasKibanaVersion(p, kv[1]))
    /\ ~(pq # <<>> /\ pq # p.Name)

\* A collapse that deletes every entry of p's name, newer ones too.
RECURSIVE dropAllOfName(_, _, _)
dropAllOfName(pl, order, p) ==
    IF order = <<>> THEN pl
    ELSE LET n == Head(order)[1]
             v == Head(order)[2]
         IN IF v \in DOMAIN pl[n] /\ pl[n][v].Name = p.Name
            THEN dropAllOfName([pl EXCEPT ![n] = MapDelete(@, v)], Tail(order), p)
            ELSE dropAllOfName(pl, Tail(order), p)

\* The nested loops under "if !all": every entry reached that has p's name
\* and is not newer than p is deleted; an entry deleted before the range
\* reaches it is not produced.
RECURSIVE dropNotNewer(_, _, _)
dropNotNewer(pl, order, p) ==
    IF order = <<>> THEN pl
    ELSE LET n == Head(order)[1]
             v == Head(order)[2]
         IN IF v \notin DOMAIN pl[n] THEN dropNotNewer(pl, Tail(order), p)
            ELSE LET pp == pl[n][v] IN
                 IF pp.Name = p.Name /\ ~IsNewer(pp, p)
                 THEN dropNotNewer([pl EXCEPT ![pp.Name] = MapDelete(@, pp.Version)],
                                   Tail(order), p)
                 ELSE dropNotNewer(pl, Tail(order), p)

\* A store that starts a fresh inner map every time.
storeByNameOnly(pl, p) == MapPut(pl, p.Name, MapPut(<<>>, p.Version, p))

\* packagesList[p.Name][p.Version] = p, creating the inner map when absent.
storePackage(pl, p) ==
    LET inner == IF p.Name \in DOMAIN pl THEN pl[p.Name] ELSE <<>>
    IN MapPut(pl, p.Name, MapPut(inner, p.Version, p))

-----------------------------------------------------------------------------
(* getPackageOutput *)

separator == <<64>>

\* key + separator + v for every entry, in iteration order.
collectKeys(order) ==
    [i \in 1..Len(order) |-> order[i][1] \o separator \o order[i][2]]

\* A projection that writes the internal field for every package.
outputRecordAlwaysInternal(m) ==
    [name |-> m.Name, description |-> m.Description, version |-> m.Version,
     type |-> m.Type, download |-> GetDownloadPath(m), path |-> GetUrlPath(m),
     internal |-> m.Internal]
    @@ (IF m.Title # <<>> THEN [title |-> m.Title[1]] ELSE <<>>)
    @@ (IF m.Icons # <<>> THEN [icons |-> m.Icons] ELSE <<>>)

\* The record projected from package m.
outputRecord(m) ==
    [name |-> m.Name, description |-> m.Description, version |-> m.Version,
     type |-> m.Type, download |-> GetDownloadPath(m), path |-> GetUrlPath(m)]
    @@ (IF m.Title # <<>> THEN [title |-> m.Title[1]] ELSE <<>>)
    @@ (IF m.Icons # <<>> THEN [icons |-> m.Icons] ELSE <<>>)
    @@ (IF m.Internal THEN [internal |-> TRUE] ELSE <<>>)

\* The output slice: one record per sorted key, looked up by the two first
\* parts of the key.
buildOutput(pl, keys) ==
    [i \in 1..Len(keys) |->
        LET parts == Split(keys[i], separator[1])
        IN outputRecord(lookupPackage(pl, parts[1], parts[2]))]

\* encoding/json writes the keys of a map in ascending order.
JsonKeyOrder ==
    <<"description", "download", "icons", "internal", "name", "path",
      "title", "type", "version">>

marshalObject(rec) ==
    LET present == SelectSeq(JsonKeyOrder, LAMBDA k : k \in DOMAIN rec)
    IN [i \in 1..Len(present) |-> <<present[i], rec[present[i]]>>]

\* json.MarshalIndent of the output slice: a nil slice is written as null.
jsonMarshalIndent(output) ==
    IF output = <<>> THEN [kind |-> "null", items |-> <<>>]
    ELSE [kind |-> "array", items |-> [i \in 1..Len(output) |-> marshalObject(output[i])]]

\* The bytes without the special case for an empty output.
marshalAlways(output) == jsonMarshalIndent(output)

\* The bytes getPackageOutput returns for the output slice.
outputBytes(output) ==
    IF Len(output) = 0 THEN [kind |-> "[]", items |-> <<>>]
    ELSE jsonMarshalIndent(output)

-----------------------------------------------------------------------------
(* The handler as a state machine *)

VARIABLES
    packages,       \* what util.GetPackages returns
    query,          \* the URL parameters of the request
    pc,             \* position of the handler: start, load, loop, done
    kibanaVersion,  \* locals of searchHandler
    category,
    packageQuery,
    all,
    internal,
    idx,            \* position of the loop over packages
    packagesList,
    output,         \* the output slice of getPackageOutput
    status,         \* "" while handling, then "ok" or "notFound"
    data,           \* the bytes written to the response
    responses,      \* bodies of the earlier successful responses
    narrow,         \* the pairs served for the query when it had all=false
    dsInput,        \* NewDataset: package name, base path, manifest, files on the disk
    d,              \* the DataSet under construction, as a one-element sequence
    dpc,            \* position of NewDataset: start, unpacked, validated, built, failed
    derr,           \* the error of the last call, "" for nil
    before,         \* the DataSet as it was when Validate was last called
    config,         \* createMetricStreams: the module config and the dataset name
    spc,            \* position of createMetricStreams: start, entries, returned, failed, panicked
    eidx,           \* position of the loop over moduleConfig
    configOptions,
    foundConfigEntries,
    streams         \* the streams returned

searchVars == <<packages, query, pc, kibanaVersion, category, packageQuery, all,
                internal, idx, packagesList, output, status, data, responses, narrow>>
datasetVars == <<dsInput, d, dpc, derr, before>>
streamVars == <<config, spc, eidx, configOptions, foundConfigEntries, streams>>

vars == <<searchVars, datasetVars, streamVars>>

\* The variables of NewDataset and of createMetricStreams while neither runs.
DatasetIdle ==
    /\ dsInput = <<>>
    /\ d = <<>>
    /\ dpc = "idle"
    /\ derr = ""
    /\ before = <<>>

StreamsIdle ==
    /\ config = <<>>
    /\ spc = "idle"
    /\ eidx = 0
    /\ configOptions = <<>>
    /\ foundConfigEntries = {}
    /\ streams = <<>>

NoData == [kind |-> "none", items |-> <<>>]
ErrorData == [kind |-> "error", items |-> <<>>]

Init ==
    /\ packages \in PackageLists
    /\ query \in Queries
    /\ pc = "start"
    /\ kibanaVersion = <<>>
    /\ category = ""
    /\ packageQuery = <<>>
    /\ all = FALSE
    /\ internal = FALSE
    /\ idx = 0
    /\ packagesList = <<>>
    /\ output = <<>>
    /\ status = ""
    /\ data = NoData
    /\ responses = <<>>
    /\ narrow = <<>>
    /\ DatasetIdle
    /\ StreamsIdle

\* notFound(w, err); return
NotFound ==
    /\ status' = "notFound"
    /\ data' = ErrorData
    /\ pc' = "done"

\* Lines 23-68: read the query parameters.  Get returns the empty string for
\* an absent parameter, so a request without parameters (len(query) = 0)
\* leaves every local at its zero value like one with empty values does.
ReadQuery ==
    /\ pc = "start"
    /\ IF rejectsKibana(query.kibana)
       THEN /\ NotFound
            /\ UNCHANGED <<kibanaVersion, category, packageQuery, all, internal>>
       ELSE /\ kibanaVersion' = parseKibana(query.kibana)
            /\ category' = query.category
            /\ packageQuery' = query.package
            /\ all' = ParseBool(query.all)
            /\ internal' = ParseBool(query.internal)
            /\ pc' = "load"
            /\ UNCHANGED <<status, data>>
    /\ UNCHANGED <<packages, query, idx, packagesList, output, responses>>
    /\ UNCHANGED <<narrow, datasetVars, streamVars>>

\* Lines 70-75: fetch the packages; the loader may fail.
GetPackages ==
    /\ pc = "load"
    /\ \E ok \in BOOLEAN :
         IF ok
         THEN /\ packagesList' = <<>>
              /\ idx' = 1
              /\ pc' = "loop"
              /\ UNCHANGED <<status, data>>
         ELSE /\ NotFound
              /\ UNCHANGED <<packagesList, idx>>
    /\ UNCHANGED <<packages, query, kibanaVersion, category, packageQuery, all,
                   internal, output, responses>>
    /\ UNCHANGED <<narrow, datasetVars, streamVars>>

\* The loop with the test on all inverted: collapsing when all is set.
LoopStepInverted ==
    /\ pc = "loop"
    /\ idx <= Len(packages)
    /\ LET p == packages[idx] IN
       IF ~passesFilters(p, internal, category, kibanaVersion, packageQuery)
       THEN UNCHANGED packagesList
       ELSE \E o \in RangeOrders(packagesList) :
              packagesList' =
                storePackage(IF all
                             THEN dropNotNewer(packagesList, Iteration(o.outer, o.inner), p)
                             ELSE packagesList,
                             p)
    /\ idx' = idx + 1
    /\ UNCHANGED <<packages, query, pc, kibanaVersion, category, packageQuery, all,
                   internal, output, status, data, responses>>
    /\ UNCHANGED <<narrow, datasetVars, streamVars>>

\* Lines 78-124: one iteration of the loop over packages.
LoopStep ==
    /\ pc = "loop"
    /\ idx <= Len(packages)
    /\ LET p == packages[idx] IN
       IF ~passesFilters(p, internal, category, kibanaVersion, packageQuery)
       THEN UNCHANGED packagesList
       ELSE \E o \in RangeOrders(packagesList) :
              packagesList' =
                storePackage(IF ~all
                             THEN dropNotNewer(packagesList, Iteration(o.outer, o.inner), p)
                             ELSE packagesList,
                             p)
    /\ idx' = idx + 1
    /\ UNCHANGED <<packages, query, pc, kibanaVersion, category, packageQuery, all,
                   internal, output, status, data, responses>>
    /\ UNCHANGED <<narrow, datasetVars, streamVars>>

\* Lines 126-134 and getPackageOutput: sort the keys, project, write.
WriteOutput ==
    /\ pc = "loop"
    /\ idx > Len(packages)
    /\ \E o \in RangeOrders(packagesList) :
         LET keys == sortStrings(collectKeys(Iteration(o.outer, o.inner)))
             out == buildOutput(packagesList, keys)
         IN /\ output' = out
            /\ data' = outputBytes(out)
    /\ status' = "ok"
    /\ pc' = "done"
    /\ UNCHANGED <<packages, query, kibanaVersion, category, packageQuery, all,
                   internal, idx, packagesList, responses>>
    /\ UNCHANGED <<narrow, datasetVars, streamVars>>

\* The same request arrives again: the handler closure runs from its start.
NextRequest ==
    /\ pc = "done"
    /\ status = "ok"
    /\ Len(responses) < MaxRequests - 1
    /\ responses' = Append(responses, data)
    /\ pc' = "start"
    /\ kibanaVersion' = <<>>
    /\ category' = ""
    /\ packageQuery' = <<>>
    /\ all' = FALSE
    /\ internal' = FALSE
    /\ idx' = 0
    /\ packagesList' = <<>>
    /\ output' = <<>>
    /\ status' = ""
    /\ data' = NoData
    /\ UNCHANGED <<packages, query>>
    /\ UNCHANGED <<narrow, datasetVars, streamVars>>

\* The query arrives again with all=true after it was served with all=false.
RequestAllVersions ==
    /\ pc = "done"
    /\ status = "ok"
    /\ ~all
    /\ narrow = <<>>
    /\ responses = <<>>
    /\ narrow' = << { <<output[i].name, output[i].version>> : i \in 1..Len(output) } >>
    /\ query' = [query EXCEPT !.all = "true"]
    /\ pc' = "start"
    /\ kibanaVersion' = <<>>
    /\ category' = ""
    /\ packageQuery' = <<>>
    /\ all' = FALSE
    /\ internal' = FALSE
    /\ idx' = 0
    /\ packagesList' = <<>>
    /\ output' = <<>>
    /\ status' = ""
    /\ data' = NoData
    /\ UNCHANGED <<packages, responses, datasetVars, streamVars>>

Next ==
    \/ ReadQuery \/ GetPackages \/ LoopStep \/ WriteOutput
    \/ NextRequest \/ RequestAllVersions

Spec == Init /\ [][Next]_vars

-----------------------------------------------------------------------------
(* util.DataSet: NewDataset and Validate *)

\* strings.Contains(s, "-")
ContainsHyphen(s) == \E i \in 1..Len(s) : s[i] = 45

\* "default", ".json", ".yml", "elasticsearch", "ingest-pipeline"
DefaultPipeline == <<100, 101, 102, 97, 117, 108, 116>>
DotJson == <<46, 106, 115, 111, 110>>
DotYml == <<46, 121, 109, 108>>
ElasticsearchDir == <<101, 108, 97, 115, 116, 105, 99, 115, 101, 97, 114, 99, 104>>
IngestPipelineDir ==
    <<105, 110, 103, 101, 115, 116, 45, 112, 105, 112, 101, 108, 105, 110, 101>>

\* Position of the last "/" in path, 0 when there is none.
LastSlash(path) ==
    LET hits == { i \in 1..Len(path) : path[i] = 47 } IN
    IF hits = {} THEN 0 ELSE CHOOSE i \in hits : \A j \in hits : j <= i

\* The path without the slashes at its end.
StripTrailingSlashes(path) ==
    LET kept == { i \in 1..Len(path) : path[i] # 47 } IN
    IF kept = {} THEN <<>>
    ELSE SubSeq(path, 1, CHOOSE i \in kept : \A j \in kept : j <= i)

\* filepath.Base: the last element of the path; "." for the empty path and
\* "/" for a path of slashes only.
filepathBase(path) ==
    IF path = <<>> THEN <<46>>
    ELSE LET stripped == StripTrailingSlashes(path) IN
         IF stripped = <<>> THEN <<47>>
         ELSE SubSeq(stripped, LastSlash(stripped) + 1, Len(stripped))

\* strings.Join(elems, "/")
RECURSIVE JoinSlash(_)
JoinSlash(elems) ==
    IF elems = <<>> THEN <<>>
    ELSE IF Len(elems) = 1 THEN elems[1]
    ELSE elems[1] \o <<47>> \o JoinSlash(Tail(elems))

\* The loop of filepath.Clean over the elements between slashes: out holds
\* the elements kept, dotdot the number of leading ".." among them.
RECURSIVE cleanElements(_, _, _, _)
cleanElements(elems, out, dotdot, rooted) ==
    IF elems = <<>> THEN out
    ELSE LET e == Head(elems) IN
         IF e = <<>> \/ e = <<46>>
         THEN cleanElements(Tail(elems), out, dotdot, rooted)
         ELSE IF e = <<46, 46>>
         THEN IF Len(out) > dotdot
              THEN cleanElements(Tail(elems), SubSeq(out, 1, Len(out) - 1), dotdot, rooted)
              ELSE IF rooted
              THEN cleanElements(Tail(elems), out, dotdot, rooted)
              ELSE cleanElements(Tail(elems), Append(out, e), dotdot + 1, rooted)
         ELSE cleanElements(Tail(elems), Append(out, e), dotdot, rooted)

\* filepath.Clean: the shortest path naming the same place, "." for an
\* empty one.
filepathClean(path) ==
    IF path = <<>> THEN <<46>>
    ELSE IF path[1] = 47
    THEN <<47>> \o JoinSlash(cleanElements(Split(path, 47), <<>>, 0, TRUE))
    ELSE IF cleanElements(Split(path, 47), <<>>, 0, FALSE) = <<>> THEN <<46>>
    ELSE JoinSlash(cleanElements(Split(path, 47), <<>>, 0, FALSE))

\* filepath.Join: the elements from the first non-empty one on, joined by
\* "/" and cleaned; "" when every element is empty.
RECURSIVE filepathJoin(_)
filepathJoin(elems) ==
    IF elems = <<>> THEN <<>>
    ELSE IF Head(elems) = <<>> THEN filepathJoin(Tail(elems))
    ELSE filepathClean(JoinSlash(elems))

\* filepath.Split: the path up to and with its last "/", and the rest.
filepathSplit(path) ==
    [dir |-> SubSeq(path, 1, LastSlash(path)),
     file |-> SubSeq(path, LastSlash(path) + 1, Len(path))]

\* The smallest element of a non-empty set of numbers.
MinOf(S) == CHOOSE x \in S : \A y \in S : x <= y

\* The first position from i on at which str holds one of bytes, 0 when
\* there is none.
NextIn(str, i, bytes) ==
    LET hits == { k \in i..Len(str) : str[k] \in bytes } IN
    IF hits = {} THEN 0 ELSE MinOf(hits)

BadPattern == [rest |-> <<>>, match |-> FALSE, ok |-> FALSE, err |-> TRUE]

\* The second byte that the first byte b of a sequence of three or of four
\* UTF-8 bytes allows: no overlong form, no surrogate, nothing above
\* U+10FFFF.
secondByte(b) ==
    IF b = 224 THEN 160..191
    ELSE IF b = 237 THEN 128..159
    ELSE IF b = 240 THEN 144..191
    ELSE IF b = 244 THEN 128..143
    ELSE 128..191

\* utf8.DecodeRuneInString: the first rune of str and its width in bytes;
\* (RuneError, 0) for the empty string and (RuneError, 1) for a byte that
\* starts no well-formed sequence, RuneError being U+FFFD, 65533.
DecodeRuneInString(str) ==
    IF str = <<>> THEN [r |-> 65533, n |-> 0]
    ELSE IF str[1] < 128 THEN [r |-> str[1], n |-> 1]
    ELSE IF /\ str[1] \in 194..223
            /\ Len(str) >= 2 /\ str[2] \in 128..191
    THEN [r |-> (str[1] % 32) * 64 + (str[2] % 64), n |-> 2]
    ELSE IF /\ str[1] \in 224..239
            /\ Len(str) >= 3 /\ str[2] \in secondByte(str[1]) /\ str[3] \in 128..191
    THEN [r |-> (str[1] % 16) * 4096 + (str[2] % 64) * 64 + (str[3] % 64), n |-> 3]
    ELSE IF /\ str[1] \in 240..244
            /\ Len(str) >= 4 /\ str[2] \in secondByte(str[1])
            /\ str[3] \in 128..191 /\ str[4] \in 128..191
    THEN [r |-> (str[1] % 8) * 262144 + (str[2] % 64) * 4096
                + (str[3] % 64) * 64 + (str[4] % 64),
          n |-> 4]
    ELSE [r |-> 65533, n |-> 1]

\* The end of getEsc: dec is the rune decoded at the start of chunk.  A
\* byte that is no UTF-8 is an error, and so is a class that ends here.
getEscRune(chunk, dec) ==
    [r |-> dec.r, rest |-> SubSeq(chunk, dec.n + 1, Len(chunk)),
     err |-> (dec.r = 65533 /\ dec.n = 1) \/ Len(chunk) = dec.n]

\* getEsc of path/filepath: one character of a class, possibly escaped by a
\* backslash.  It must not be "-" or "]", and the class must go on after it.
getEsc(chunk) ==
    IF chunk = <<>> \/ chunk[1] = 45 \/ chunk[1] = 93
    THEN [r |-> 0, rest |-> <<>>, err |-> TRUE]
    ELSE IF chunk[1] = 92
    THEN IF Len(chunk) = 1 THEN [r |-> 0, rest |-> <<>>, err |-> TRUE]
         ELSE getEscRune(Tail(chunk), DecodeRuneInString(Tail(chunk)))
    ELSE getEscRune(chunk, DecodeRuneInString(chunk))

\* The ranges of a character class up to its closing "]", which counts as
\* closing only after one range; match tells whether r is in a range.  The
\* ASCII characters before the one that precedes the first "\", "-", "]" or
\* byte of a longer rune are ranges of one character each and are taken in
\* one step; a class of plain ASCII characters only never closes.
RECURSIVE parseRanges(_, _, _, _)

\* The range lo-hi.
rangeTo(r, nrange, match, lo, hi) ==
    IF hi.err THEN BadPattern
    ELSE parseRanges(hi.rest, r, nrange + 1, match \/ (lo.r <= r /\ r <= hi.r))

\* The range that starts with lo.
rangeFrom(r, nrange, match, lo) ==
    IF lo.err THEN BadPattern
    ELSE IF lo.rest[1] = 45 THEN rangeTo(r, nrange, match, lo, getEsc(Tail(lo.rest)))
    ELSE parseRanges(lo.rest, r, nrange + 1, match \/ r = lo.r)

\* first is the position of the first "\", "-", "]" or byte of a rune above
\* ASCII in chunk.
parseRangesAt(chunk, r, nrange, match, first) ==
    IF first = 0 THEN BadPattern
    ELSE IF first > 2
    THEN parseRanges(SubSeq(chunk, first - 1, Len(chunk)), r, nrange + first - 2,
                     match \/ \E k \in 1..(first - 2) : chunk[k] = r)
    ELSE IF chunk[1] = 93 /\ nrange > 0
    THEN [rest |-> Tail(chunk), match |-> match, ok |-> TRUE, err |-> FALSE]
    ELSE rangeFrom(r, nrange, match, getEsc(chunk))

parseRanges(chunk, r, nrange, match) ==
    parseRangesAt(chunk, r, nrange, match, NextIn(chunk, 1, {92, 45, 93} \cup 128..255))

\* The number of characters at the start of chunk that stand for
\* themselves: those before the first "[", "?" or "\".
literalRun(chunk) ==
    IF NextIn(chunk, 1, {91, 63, 92}) = 0 THEN Len(chunk)
    ELSE NextIn(chunk, 1, {91, 63, 92}) - 1

\* The class after its "[" starts with "^".
classNegated(chunk) == Len(chunk) > 1 /\ chunk[2] = 94

\* The loop of matchChunk: once the match has failed the rest of the chunk
\* is still read, for the errors of a malformed pattern, and str no longer.
RECURSIVE matchChunkFrom(_, _, _)

\* The loop goes on after n bytes of str, or without str once the match
\* has failed.
matchNext(chunk, str, n, failed) ==
    IF failed THEN matchChunkFrom(chunk, <<>>, TRUE)
    ELSE matchChunkFrom(chunk, SubSeq(str, n + 1, Len(str)), FALSE)

\* case '[': class is the result of reading the ranges for the first rune
\* of str; the loop goes on after that rune.
matchClass(str, failed, negated, class) ==
    IF class.err THEN BadPattern
    ELSE matchNext(class.rest, str, DecodeRuneInString(str).n,
                   failed \/ class.match = negated)

\* A run of n characters that stand for themselves, taken in one step: it
\* matches when str starts with it.
matchLiteral(chunk, str, hasFailed, n) ==
    IF ~hasFailed /\ Len(str) >= n /\ SubSeq(str, 1, n) = SubSeq(chunk, 1, n)
    THEN matchChunkFrom(SubSeq(chunk, n + 1, Len(chunk)), SubSeq(str, n + 1, Len(str)), FALSE)
    ELSE matchChunkFrom(SubSeq(chunk, n + 1, Len(chunk)), <<>>, TRUE)

\* The cases "[", "?" and "\" of the switch; failed holds also when str is
\* used up.  A class and "?" take one rune of str, an escaped character one
\* byte.
matchSpecial(chunk, str, failed) ==
    IF chunk[1] = 91
    THEN matchClass(str, failed, classNegated(chunk),
                    parseRanges(SubSeq(chunk, IF classNegated(chunk) THEN 3 ELSE 2, Len(chunk)),
                                IF failed THEN 0 ELSE DecodeRuneInString(str).r, 0, FALSE))
    ELSE IF chunk[1] = 63
    THEN matchNext(Tail(chunk), str, DecodeRuneInString(str).n, failed \/ str[1] = 47)
    ELSE IF Len(chunk) = 1 THEN BadPattern
    ELSE matchNext(SubSeq(chunk, 3, Len(chunk)), str, 1, failed \/ chunk[2] # str[1])

matchChunkFrom(chunk, str, hasFailed) ==
    IF chunk = <<>>
    THEN IF hasFailed THEN [rest |-> <<>>, match |-> FALSE, ok |-> FALSE, err |-> FALSE]
         ELSE [rest |-> str, match |-> TRUE, ok |-> TRUE, err |-> FALSE]
    ELSE IF chunk[1] \notin {91, 63, 92}
    THEN matchLiteral(chunk, str, hasFailed, literalRun(chunk))
    ELSE matchSpecial(chunk, str, hasFailed \/ str = <<>>)

\* matchChunk(chunk, s): whether chunk matches a prefix of s, and the rest
\* of s.
matchChunk(chunk, str) == matchChunkFrom(chunk, str, FALSE)

RECURSIVE stripStars(_)
stripStars(pattern) ==
    IF pattern # <<>> /\ pattern[1] = 42 THEN stripStars(Tail(pattern)) ELSE pattern

\* The scan of scanChunk from position i: the length of the text before
\* the first "*" outside a class.  Only "\", "[", "]" and "*" matter to
\* it, so the scan goes from one of them to the next.
RECURSIVE scanLength(_, _, _)

\* k is the position of the next "\", "[", "]" or "*".
scanAt(pattern, k, inrange) ==
    IF k = 0 THEN Len(pattern)
    ELSE IF pattern[k] = 92 THEN scanLength(pattern, k + 2, inrange)
    ELSE IF pattern[k] = 91 THEN scanLength(pattern, k + 1, TRUE)
    ELSE IF pattern[k] = 93 THEN scanLength(pattern, k + 1, FALSE)
    ELSE IF ~inrange THEN k - 1
    ELSE scanLength(pattern, k + 1, inrange)

scanLength(pattern, i, inrange) ==
    scanAt(pattern, NextIn(pattern, i, {92, 91, 93, 42}), inrange)

\* The chunk of n characters of p, the pattern without its leading stars.
cutChunk(pattern, p, n) ==
    [star |-> pattern # <<>> /\ pattern[1] = 42,
     chunk |-> SubSeq(p, 1, n),
     rest |-> SubSeq(p, n + 1, Len(p))]

\* scanChunk: the leading stars, the chunk after them and the rest.
scanChunk(pattern) ==
    cutChunk(pattern, stripStars(pattern), scanLength(stripStars(pattern), 1, FALSE))

\* The last loop of Match: the rest of the pattern is malformed.
RECURSIVE restIsBad(_)

restIsBad(pattern) ==
    IF pattern = <<>> THEN FALSE
    ELSE \/ matchChunk(scanChunk(pattern).chunk, <<>>).err
         \/ restIsBad(scanChunk(pattern).rest)

\* filepath.Match(pattern, name), as of Go 1.16: the whole pattern is read,
\* so that a malformed pattern is an error whatever the name is.  (Before
\* Go 1.16 the error was reported only when the match reached the
\* malformed part.)
RECURSIVE Match(_, _)

\* The chunk matched at some place of name: t is the result of matchChunk
\* there; the last chunk must match up to the end of name.
chunkAccepted(sc, t) == t.ok /\ ~(sc.rest = <<>> /\ t.rest # <<>>)

\* The numbers of characters, none of them a "/", that the star may take
\* for the chunk to match after them.
starSkips(sc, name) ==
    { i \in 1..Len(name) :
        /\ \A k \in 1..i : name[k] # 47
        /\ chunkAccepted(sc, matchChunk(sc.chunk, SubSeq(name, i + 1, Len(name)))) }

\* The star takes the fewest characters it can.
matchAfterStar(sc, name, skips) ==
    IF skips = {} THEN [ok |-> FALSE, err |-> restIsBad(sc.rest)]
    ELSE Match(sc.rest, matchChunk(sc.chunk, SubSeq(name, MinOf(skips) + 1, Len(name))).rest)

\* first is the result of matchChunk at the start of name.
matchFirst(sc, name, first) ==
    IF first.ok /\ (first.rest = <<>> \/ sc.rest # <<>>) THEN Match(sc.rest, first.rest)
    ELSE IF first.err THEN [ok |-> FALSE, err |-> TRUE]
    ELSE IF sc.star THEN matchAfterStar(sc, name, starSkips(sc, name))
    ELSE [ok |-> FALSE, err |-> restIsBad(sc.rest)]

\* sc is the next chunk of the pattern.
matchScanned(sc, name) ==
    IF sc.star /\ sc.chunk = <<>> THEN [ok |-> IndexByte(name, 47) = 0, err |-> FALSE]
    ELSE matchFirst(sc, name, matchChunk(sc.chunk, name))

Match(pattern, name) ==
    IF pattern = <<>> THEN [ok |-> name = <<>>, err |-> FALSE]
    ELSE matchScanned(scanChunk(pattern), name)

\* hasMeta: the path holds one of * ? [ \
hasMeta(path) == \E i \in 1..Len(path) : path[i] \in {42, 63, 91, 92}

\* cleanGlobPath: the directory of a pattern as os.Stat takes it.
cleanGlobPath(path) ==
    IF path = <<>> THEN <<46>>
    ELSE IF path = <<47>> THEN path
    ELSE SubSeq(path, 1, Len(path) - 1)

\* The directory of a path: "." for a single relative element.
parentDir(path) ==
    IF LastSlash(path) = 0 THEN <<46>>
    ELSE IF LastSlash(path) = 1 THEN <<47>>
    ELSE SubSeq(path, 1, LastSlash(path) - 1)

\* The directories above path.
ancestors(path) ==
    { SubSeq(path, 1, i - 1) : i \in { k \in 2..Len(path) : path[k] = 47 } }

\* The file system Validate reads: the pipeline directory dirPath and the
\* directories that lead to it; in it the entries named names, of which
\* those of links are symbolic links to nothing and the others regular
\* files; and the regular files beside, each with the directories that lead
\* to it.  Nothing else is on the disk.
fileSystem(dirPath, names, links, beside) ==
    [dirs |-> ancestors(dirPath) \cup {dirPath}
              \cup { IF dirPath[1] = 47 THEN <<47>> ELSE <<46>> }
              \cup UNION { ancestors(x) : x \in beside },
     files |-> { dirPath \o <<47>> \o n : n \in names \ links } \cup beside,
     links |-> { dirPath \o <<47>> \o n : n \in names \cap links }]

\* Readdirnames(dir): the names of the entries of directory dir.
entries(fs, dir) ==
    { filepathBase(q) :
        q \in { x \in (fs.dirs \cup fs.files \cup fs.links) \ { <<46>>, <<47>>, <<46, 46>> } :
                  parentDir(x) = dir /\ filepathBase(x) # <<46, 46>> } }

\* os.Stat(path), path as filepath.Join cleaned it: "" when it succeeds,
\* else the errno of the PathError.  A NUL byte in the path is refused
\* before the system call (EINVAL), and so is a path of PATH_MAX bytes or
\* more (ENAMETOOLONG).  The system then walks the path element by element
\* and stops at the first one it cannot pass: an element of more than
\* NAME_MAX = 255 bytes (ENAMETOOLONG), a regular file above the last
\* element (ENOTDIR), a name that is not there or a symbolic link to
\* nothing (ENOENT).  The directories ".", "/" and "..", "../.." are always
\* there.  Only ENOENT is an error that os.IsNotExist accepts.
osStat(fs, path) ==
    LET tooLong(q) == Len(q) - LastSlash(q) > 255
        isDir(q) == \/ q \in fs.dirs \cup { <<46>>, <<47>> }
                    \/ \A i \in 1..Len(Split(q, 47)) : Split(q, 47)[i] = <<46, 46>>
        stops == { q \in ancestors(path) \cup {path} : tooLong(q) \/ ~isDir(q) }
        first == CHOOSE q \in stops : \A r \in stops : Len(q) <= Len(r)
    IN IF path = <<>> THEN "ENOENT"
       ELSE IF \E i \in 1..Len(path) : path[i] = 0 THEN "EINVAL"
       ELSE IF Len(path) >= 4096 THEN "ENAMETOOLONG"
       ELSE IF stops = {} THEN ""
       ELSE IF tooLong(first) THEN "ENAMETOOLONG"
       ELSE IF first \in fs.files THEN (IF first = path THEN "" ELSE "ENOTDIR")
       ELSE "ENOENT"

\* The loop of glob over the names of a directory.
globNames(dir, pattern, names) ==
    [paths |-> { filepathJoin(<<dir, n>>) : n \in { x \in names : Match(pattern, x).ok } },
     err |-> \E n \in names : Match(pattern, n).err]

\* glob(dir, pattern, matches): the entries of dir that match pattern; a
\* dir that is no directory gives none.
globDir(fs, dir, pattern) ==
    IF dir \notin fs.dirs THEN [paths |-> {}, err |-> FALSE]
    ELSE globNames(dir, pattern, entries(fs, dir))

\* filepath.Glob(pattern): the paths of the file system that match, and
\* whether it returns ErrBadPattern.  A directory part that holds a
\* metacharacter is itself expanded against the file system.
RECURSIVE Glob(_, _)

\* m is the result of Glob on the directory part.
globIn(fs, file, m) ==
    IF m.err THEN [paths |-> {}, err |-> TRUE]
    ELSE [paths |-> UNION { globDir(fs, x, file).paths : x \in m.paths },
          err |-> \E x \in m.paths : globDir(fs, x, file).err]

\* dir and file are the two parts of the pattern.
globSplit(fs, pattern, dir, file) ==
    IF ~hasMeta(dir) THEN globDir(fs, dir, file)
    ELSE IF dir = pattern THEN [paths |-> {}, err |-> TRUE]
    ELSE globIn(fs, file, Glob(fs, dir))

Glob(fs, pattern) ==
    IF Match(pattern, <<>>).err THEN [paths |-> {}, err |-> TRUE]
    ELSE IF ~hasMeta(pattern)
    THEN [paths |-> IF pattern \in fs.dirs \cup fs.files \cup fs.links THEN {pattern} ELSE {},
          err |-> FALSE]
    ELSE globSplit(fs, pattern, cleanGlobPath(filepathSplit(pattern).dir),
                   filepathSplit(pattern).file)

\* Line 88: filepath.Join(d.BasePath, "elasticsearch", "ingest-pipeline")
pipelineDirOf(ds) == filepathJoin(<<ds.BasePath, ElasticsearchDir, IngestPipelineDir>>)

\* The test of line 101 on the base name of a path.
isDefaultPipelineFile(base) ==
    base = DefaultPipeline \o DotJson \/ base = DefaultPipeline \o DotYml

\* Lines 98-106: an unset ingest pipeline becomes "default" when the
\* directory holds default.json or default.yml.
withDefaultPipeline(ds, paths) ==
    IF ds.IngestPipeline = <<>> /\ \E path \in paths : isDefaultPipelineFile(filepathBase(path))
    THEN [ds EXCEPT !.IngestPipeline = DefaultPipeline]
    ELSE ds

\* Lines 114-117: os.IsNotExist holds of the errors of os.Stat for both
\* pipelineDir/{ingestPipeline}.json and pipelineDir/{ingestPipeline}.yml.
pipelineMissing(fs, pipelineDir, name) ==
    /\ osStat(fs, filepathJoin(<<pipelineDir, name \o DotYml>>)) = "ENOENT"
    /\ osStat(fs, filepathJoin(<<pipelineDir, name \o DotJson>>)) = "ENOENT"

\* Lines 108-121 on the DataSet d1 that lines 98-106 left.
checkPipelines(d1, paths, fs) ==
    IF d1.IngestPipeline = <<>> /\ paths # {}
    THEN [d |-> d1, err |-> "unused-pipelines"]
    ELSE IF /\ d1.IngestPipeline # <<>>
            /\ pipelineMissing(fs, pipelineDirOf(d1), d1.IngestPipeline)
    THEN [d |-> d1, err |-> "missing-pipeline"]
    ELSE [d |-> d1, err |-> ""]

\* Lines 90-121: listed is what filepath.Glob returned.
validateListed(ds, fs, listed) ==
    IF listed.err THEN [d |-> ds, err |-> "bad-pattern"]
    ELSE IF ContainsHyphen(ds.ID) THEN [d |-> ds, err |-> "invalid-identifier"]
    ELSE checkPipelines(withDefaultPipeline(ds, listed.paths), listed.paths, fs)

\* Lines 88-89: the result of filepath.Glob(filepath.Join(pipelineDir, "*"))
\* on the disk fs.
listPipelines(ds, fs) == Glob(fs, filepathJoin(<<pipelineDirOf(ds), <<42>>>>))

\* (d *DataSet) Validate() on the disk fs: the dataset after the call and
\* the error, "" for nil.
validate(ds, fs) == validateListed(ds, fs, listPipelines(ds, fs))

\* Defaults that replace the id of the manifest.
withDefaultIdAlways(ds, pkgName, datasetPath) ==
    [ds EXCEPT !.ID = pkgName \o <<46>> \o datasetPath,
               !.Release = IF @ = "" THEN "beta" ELSE @]

\* Lines 75-82: the defaults of id and release.
withDefaults(ds, pkgName, datasetPath) ==
    [ds EXCEPT !.ID = IF @ = <<>> THEN pkgName \o <<46>> \o datasetPath ELSE @,
               !.Release = IF @ = "" THEN "beta" ELSE @]

\* Lines 63-70: the DataSet with the fields of the manifest unpacked into it.
unpacked(in) ==
    [ID |-> in.manifest.id, Title |-> in.manifest.title,
     Release |-> in.manifest.release, Type |-> in.manifest.type,
     IngestPipeline |-> in.manifest.ingest_pipeline,
     Streams |-> in.manifest.streams, Package |-> in.pkgName,
     Path |-> filepathBase(in.basePath), BasePath |-> in.basePath]

\* The fields tagged validate:"required" are all set: the title, the type
\* and the streams of the DataSet, and the input of each Stream.
requiredSet(ds) ==
    /\ ds.Title # "" /\ ds.Type # "" /\ ds.Streams # <<>>
    /\ \A i \in 1..Len(ds.Streams) : ds.Streams[i].input # ""

\* Package names "a" and "a-b"; dataset directories p/log, p/l-g, p/l[g
\* (as a pattern: malformed), p/l[g] (a pattern that matches p/lg only),
\* p/l?g (a pattern that matches the directory itself and p/lXg for every
\* rune X) and p/l[ÿ] with ÿ the single byte 255 (no UTF-8: malformed).
PackageNames == { <<97>>, <<97, 45, 98>> }
BasePaths ==
    { <<112, 47, 108, 111, 103>>, <<112, 47, 108, 45, 103>>, <<112, 47, 108, 91, 103>>,
      <<112, 47, 108, 91, 103, 93>>, <<112, 47, 108, 63, 103>>,
      <<112, 47, 108, 91, 255, 93>> }

\* Manifest ids "", "x.y" and "x-y"; ingest pipelines "", "default", "p",
\* "./p", "default.json/x", "p" followed by a NUL byte, and the letter p 256
\* times (one byte more than a file name may have).
ManifestIds == { <<>>, <<120, 46, 121>>, <<120, 45, 121>> }
ManifestPipelines ==
    { <<>>, DefaultPipeline, <<112>>, <<46, 47, 112>>,
      DefaultPipeline \o DotJson \o <<47, 120>>, <<112, 0>>,
      [i \in 1..256 |-> 112] }

\* Manifests with every required field, with or without a release and with
\* or without an ingest pipeline, and manifests with id "x.y" that lack a
\* title, a type, the streams or the input of a stream.
Manifests ==
    [id : ManifestIds, title : {"Title"}, release : {"", "ga"},
     type : {"logs"}, ingest_pipeline : { <<>> },
     streams : { <<[input |-> "logs"]>> }]
    \cup
    [id : ManifestIds, title : {"Title"}, release : {"ga"},
     type : {"logs"}, ingest_pipeline : ManifestPipelines,
     streams : { <<[input |-> "logs"]>> }]
    \cup
    [id : { <<120, 46, 121>> }, title : {"", "Title"}, release : {"ga"},
     type : {"", "logs"}, ingest_pipeline : { <<>> },
     streams : { <<>>, <<[input |-> "logs"]>>, <<[input |-> ""]>>,
                 <<[input |-> "logs"], [input |-> ""]>> }]

\* default.json, default.yml, p.yml and c.json; default.json may be a
\* symbolic link to nothing.
PipelineFiles ==
    { DefaultPipeline \o DotJson, DefaultPipeline \o DotYml,
      <<112>> \o DotYml, <<99>> \o DotJson }

\* The pipeline files of another dataset on the same disk: none, or one of
\* p/lg/.../default.yml, p/lg/.../c.json and p/lég/.../default.json.
BesideChoices ==
    { {},
      { filepathJoin(<<<<112, 47, 108, 103>>, ElasticsearchDir, IngestPipelineDir,
                       DefaultPipeline \o DotYml>>) },
      { filepathJoin(<<<<112, 47, 108, 103>>, ElasticsearchDir, IngestPipelineDir,
                       <<99>> \o DotJson>>) },
      { filepathJoin(<<<<112, 47, 108, 195, 169, 103>>, ElasticsearchDir,
                       IngestPipelineDir, DefaultPipeline \o DotJson>>) } }

\* The inputs of NewDataset: the manifest.yml is missing, or it is there but
\* cannot be read as YAML, or it is read with the fields of manifest.  The
\* dataset is alone on the disk with any of the pipeline files, or beside
\* another dataset with no pipeline file or with c.json.
DatasetInputs ==
    { in \in [pkgName : PackageNames, basePath : BasePaths,
              manifestFile : {"readable"}, manifest : Manifests,
              files : SUBSET PipelineFiles, links : SUBSET { DefaultPipeline \o DotJson },
              beside : { {} }] : in.links \subseteq in.files }
    \cup
    [pkgName : PackageNames, basePath : BasePaths,
     manifestFile : {"readable"}, manifest : Manifests,
     files : { {}, { <<99>> \o DotJson } }, links : { {} },
     beside : BesideChoices \ { {} }]
    \cup
    [pkgName : PackageNames, basePath : BasePaths,
     manifestFile : {"missing", "unreadable"},
     manifest : { [id |-> <<>>, title |-> "", release |-> "", type |-> "",
                   ingest_pipeline |-> <<>>, streams |-> <<>>] },
     files : { {} }, links : { {} }, beside : { {} }]

\* The disk that NewDataset and Validate read.
diskOf(in) ==
    fileSystem(filepathJoin(<<in.basePath, ElasticsearchDir, IngestPipelineDir>>),
               in.files, in.links, in.beside)

\* The variables of searchHandler while no request is handled.
SearchIdle ==
    /\ packages = <<>>
    /\ query = <<>>
    /\ pc = "idle"
    /\ kibanaVersion = <<>>
    /\ category = ""
    /\ packageQuery = <<>>
    /\ all = FALSE
    /\ internal = FALSE
    /\ idx = 0
    /\ packagesList = <<>>
    /\ output = <<>>
    /\ status = ""
    /\ data = NoData
    /\ responses = <<>>
    /\ narrow = <<>>

InitDataset ==
    /\ dsInput \in DatasetInputs
    /\ d = <<>>
    /\ dpc = "start"
    /\ derr = ""
    /\ before = <<>>
    /\ SearchIdle
    /\ StreamsIdle

\* Lines 53-73, up to the fields of the manifest: the manifest must exist
\* (lines 55-58) and give every required field.  A manifest that is there
\* but is not read leaves manifest nil (the error of line 62 is dropped),
\* and Unpack on the nil config fails (lines 70-73).
Unpack ==
    /\ dpc = "start"
    /\ IF dsInput.manifestFile = "missing"
       THEN /\ dpc' = "failed"
            /\ derr' = "manifest-missing"
            /\ d' = <<>>
       ELSE IF dsInput.manifestFile = "unreadable"
       THEN /\ dpc' = "failed"
            /\ derr' = "nil-config"
            /\ d' = <<>>
       ELSE IF ~requiredSet(unpacked(dsInput))
       THEN /\ dpc' = "failed"
            /\ derr' = "required"
            /\ d' = <<unpacked(dsInput)>>
       ELSE /\ dpc' = "unpacked"
            /\ derr' = ""
            /\ d' = <<unpacked(dsInput)>>
    /\ UNCHANGED <<dsInput, before, searchVars, streamVars>>

\* Validate that names the default pipeline whenever none is declared,
\* whether or not the directory holds a default file.
ValidateNamesDefault ==
    /\ dpc \in {"unpacked", "built"}
    /\ LET r == validate(d[1], diskOf(dsInput)) IN
       /\ before' = d
       /\ d' = <<IF r.err = "" /\ r.d.IngestPipeline = <<>>
                 THEN [r.d EXCEPT !.IngestPipeline = DefaultPipeline]
                 ELSE r.d>>
       /\ derr' = r.err
       /\ dpc' = IF dpc = "built" THEN "built"
                 ELSE IF r.err = "" THEN "validated" ELSE "failed"
    /\ UNCHANGED <<dsInput, searchVars, streamVars>>

\* d.Validate(): called by Unpack on the unpacked fields (line 70), and by
\* any holder of the DataSet that NewDataset returned.
Validate ==
    /\ dpc \in {"unpacked", "built"}
    /\ LET r == validate(d[1], diskOf(dsInput)) IN
       /\ before' = d
       /\ d' = <<r.d>>
       /\ derr' = r.err
       /\ dpc' = IF dpc = "built" THEN "built"
                 ELSE IF r.err = "" THEN "validated" ELSE "failed"
    /\ UNCHANGED <<dsInput, searchVars, streamVars>>

\* Lines 75-84: the defaults, and the return of the DataSet.
ReturnDataset ==
    /\ dpc = "validated"
    /\ d' = <<withDefaults(d[1], dsInput.pkgName, filepathBase(dsInput.basePath))>>
    /\ dpc' = "built"
    /\ derr' = ""
    /\ before' = <<>>
    /\ UNCHANGED <<dsInput, searchVars, streamVars>>

NextDataset == Unpack \/ Validate \/ ReturnDataset

SpecDataset == InitDataset /\ [][NextDataset]_vars

-----------------------------------------------------------------------------
(* Properties of the search result *)

\* The handler has written a package list.
Served == pc = "done" /\ status = "ok"

\* The packages of the list that pass the filters of the query.
Passing ==
    { packages[i] : i \in { j \in 1..Len(packages) :
        passesFilters(packages[j], internal, category, kibanaVersion, packageQuery) } }

PassingPairs == { <<p.Name, p.Version>> : p \in Passing }
ResultPairs == { <<output[i].name, output[i].version>> : i \in 1..Len(output) }
EntriesOf(n) == { i \in 1..Len(output) : output[i].name = n }
RecordKey(r) == r.name \o separator \o r.version
IsPrefix(s, t) == Len(s) <= Len(t) /\ SubSeq(t, 1, Len(s)) = s
NewerVersion(v, w) == Compare(semverNew(v), semverNew(w)) = 1

\* C1: with all=false, every name with a passing package has exactly one
\* entry in the result, and that entry carries the greatest passing version
\* of the name.
C1_OneNewestEntryPerName ==
    (Served /\ ~all) =>
        \A n \in { p.Name : p \in Passing } :
            /\ Cardinality(EntriesOf(n)) = 1
            /\ \A i \in EntriesOf(n) :
                 /\ <<n, output[i].version>> \in PassingPairs
                 /\ \A p \in Passing :
                      p.Name = n => ~NewerVersion(p.Version, output[i].version)

\* C2: when the query names a package, every passing version of it is in the
\* result, with all=false too.
C2_NameQueryReturnsAllVersions ==
    (Served /\ packageQuery # <<>>) => PassingPairs \subseteq ResultPairs

\* C3: with all=true, the result holds exactly one entry for each distinct
\* (name, version) pair that passes the filters, and nothing else.
C3_AllKeepsEveryPair ==
    (Served /\ all) =>
        /\ ResultPairs = PassingPairs
        /\ Len(output) = Cardinality(PassingPairs)

C3_Witness ==
    /\ Served /\ all
    /\ Len(output) = 2
    /\ output[1].name = output[2].name
    /\ Len(packages) = 3
    /\ Cardinality(Passing) = 3

\* C4: every record of the result is the projection of a package of the list
\* that passes every active filter: not internal unless internal=true, of the
\* requested category, compatible with the requested Kibana version, and of
\* the requested name.
C4_ResultPassesFilters ==
    Served =>
        \A i \in 1..Len(output) :
            /\ \E p \in Passing : output[i] = outputRecord(p)
            /\ ("internal" \in DOMAIN output[i] => internal)
            /\ (packageQuery # <<>> => output[i].name = packageQuery)

C4_Witness ==
    /\ Served
    /\ Len(output) >= 1
    /\ ~internal /\ category # "" /\ kibanaVersion # <<>>
    /\ \E i \in 1..Len(packages) : packages[i].Internal
    /\ \E i \in 1..Len(packages) : ~HasCategory(packages[i], category)
    /\ \E i \in 1..Len(packages) : ~HasKibanaVersion(packages[i], kibanaVersion[1])

\* C5: the same package list and the same query give the same bytes on every
\* run, whatever order the maps are iterated in.
C5_SameBytesOnEveryRun ==
    Served => \A i \in 1..Len(responses) : responses[i] = data

C5_Witness ==
    /\ Served
    /\ Len(responses) >= 1
    /\ Len(output) = 3
    /\ Cardinality({ output[i].name : i \in 1..Len(output) }) = 2

\* C6: the records are emitted in strictly ascending order of
\* name + "@" + version.
C6_AscendingCompositeKey ==
    Served =>
        \A i \in 1..(Len(output) - 1) :
            StrLess(RecordKey(output[i]), RecordKey(output[i + 1]))

C6_Witness ==
    /\ Served
    /\ Len(output) = 3
    /\ \E i \in 1..2 : StrLess(packages[i + 1].Name \o separator \o packages[i + 1].Version,
                                packages[i].Name \o separator \o packages[i].Version)

\* C7 as stated: records with different names are in ascending order of name,
\* records with the same name in ascending order of version string.
C7_SortedByNameThenVersion ==
    Served =>
        \A i, j \in 1..Len(output) :
            i < j =>
                IF output[i].name # output[j].name
                THEN StrLess(output[i].name, output[j].name)
                ELSE StrLess(output[i].version, output[j].version)

\* C7 as amended: records with the same name are in ascending order of
\* version string; records with different names, neither of which is a prefix
\* of the other, are in ascending order of name; and when one name is a
\* proper prefix of the other, the record with the shorter name comes first
\* exactly when "@" + its version is smaller than the rest of the longer
\* name + "@" + the other version (for names without "@": exactly when "@"
\* is smaller than the next byte of the longer name).
C7_SortedByNameAndSeparator ==
    Served =>
        \A i, j \in 1..Len(output) :
            i < j =>
                LET n == output[i].name
                    m == output[j].name
                IN IF n = m
                   THEN StrLess(output[i].version, output[j].version)
                   ELSE IF IsPrefix(n, m)
                   THEN StrLess(separator \o output[i].version,
                                SubSeq(m, Len(n) + 1, Len(m)) \o separator
                                    \o output[j].version)
                   ELSE IF IsPrefix(m, n)
                   THEN StrLess(SubSeq(n, Len(m) + 1, Len(n)) \o separator
                                    \o output[i].version,
                                separator \o output[j].version)
                   ELSE StrLess(n, m)

\* The packages "ab", "a" and "a1" are served as a1, a, ab: a1 before its
\* prefix a ("1" is smaller than "@"), a before ab ("@" is smaller than
\* "b"), and a1 before ab, neither a prefix of the other.
C7_Witness ==
    /\ Served
    /\ Len(output) = 3
    /\ output[1].name = NameA1 /\ output[2].name = NameA /\ output[3].name = NameAB
    /\ packages[1].Name = NameAB

\* C8: when no package passes the filters, the bytes written are the empty
\* sequence [] and not null.
C8_EmptyResultIsEmptyArray ==
    (Served /\ Passing = {}) => data = [kind |-> "[]", items |-> <<>>]

C8_Witness ==
    /\ Served
    /\ Passing = {}
    /\ Len(packages) >= 1
    /\ data.kind = "[]"

\* C9: a kibana parameter that is not a semantic version ends the request
\* with an error: no package is fetched or filtered and no list is written.
C9_MalformedKibanaRejected ==
    (query.kibana # <<>> /\ ~ParsesAsVersion(query.kibana)) =>
        /\ pc \in {"start", "done"}
        /\ packagesList = <<>> /\ output = <<>>
        /\ (pc = "done" => status = "notFound" /\ data = ErrorData)

C9_Witness ==
    /\ query.kibana # <<>> /\ ~ParsesAsVersion(query.kibana)
    /\ pc = "done" /\ status = "notFound"
    /\ Len(packages) >= 1

\* C10: a package list in which two passing entries have the same name and
\* version is not served: building the map fails with an error.
C10_DuplicateVersionRejected ==
    (pc = "done" /\ \E i, j \in 1..Len(packages) :
        /\ i < j
        /\ packages[i].Name = packages[j].Name
        /\ packages[i].Version = packages[j].Version
        /\ packages[i] \in Passing /\ packages[j] \in Passing)
    => status = "notFound"

\* The base fields of every record.
BaseFields == {"name", "description", "version", "type", "download", "path"}

\* C16: each record holds exactly name, description, version, type, download
\* and path of its package, title only when the package has a title, icons
\* only when it has icons, and internal = true only when it is internal.
C16_RecordFields ==
    Served =>
        \A i \in 1..Len(output) :
            LET r == output[i]
                m == packagesList[r.name][r.version]
            IN /\ DOMAIN r = BaseFields
                                \cup (IF m.Title # <<>> THEN {"title"} ELSE {})
                                \cup (IF m.Icons # <<>> THEN {"icons"} ELSE {})
                                \cup (IF m.Internal THEN {"internal"} ELSE {})
               /\ r.name = m.Name /\ r.description = m.Description
               /\ r.version = m.Version /\ r.type = m.Type
               /\ r.download = GetDownloadPath(m) /\ r.path = GetUrlPath(m)
               /\ (m.Title # <<>> => r.title = m.Title[1])
               /\ (m.Icons # <<>> => r.icons = m.Icons)
               /\ (m.Internal => r.internal = TRUE)

C16_Witness ==
    /\ Served
    /\ Len(output) = 3
    /\ \E i \in 1..3 : DOMAIN output[i] = BaseFields
    /\ \E i \in 1..3 : "title" \in DOMAIN output[i]
    /\ \E i \in 1..3 : {"icons", "internal"} \subseteq DOMAIN output[i]

\* The packages the loop has gone through that pass the filters.
ProcessedPassing ==
    { packages[i] : i \in { j \in 1..Len(packages) :
        /\ j < idx
        /\ passesFilters(packages[j], internal, category, kibanaVersion, packageQuery) } }

\* C19: with all=false, after every prefix of the list, the map holds for each
\* name with a processed passing package a version that no processed passing
\* package of the name is newer than.
C19_NewestProcessedIsKept ==
    (pc = "loop" /\ ~all) =>
        \A n \in { p.Name : p \in ProcessedPassing } :
            /\ n \in DOMAIN packagesList
            /\ \E v \in DOMAIN packagesList[n] :
                 \A p \in ProcessedPassing :
                    p.Name = n => ~NewerVersion(p.Version, v)

C19_Witness ==
    /\ pc = "loop" /\ ~all
    /\ idx = 4
    /\ Cardinality(ProcessedPassing) = 3
    /\ packages[1].Name = packages[2].Name /\ packages[2].Name = packages[3].Name
    /\ NewerVersion(packages[1].Version, packages[2].Version)
    /\ NewerVersion(packages[3].Version, packages[1].Version)

NoDuplicatePairs ==
    \A i, j \in 1..Len(packages) :
        (packages[i].Name = packages[j].Name /\ packages[i].Version = packages[j].Version)
            => i = j

\* C20: for a list without duplicate (name, version) pairs, the pairs served
\* with all=false are among the pairs served for the same query with all=true.
C20_NewestOnlyWithinAll ==
    (Served /\ all /\ narrow # <<>> /\ NoDuplicatePairs) => narrow[1] \subseteq ResultPairs

C20_Witness ==
    /\ Served /\ all /\ narrow # <<>> /\ NoDuplicatePairs
    /\ Len(packages) = 3
    /\ narrow[1] # {}
    /\ narrow[1] # ResultPairs
    /\ Cardinality(PassingPairs) < 3

-----------------------------------------------------------------------------
(* Properties of NewDataset and Validate *)

\* The last step was a call of Validate: before holds the DataSet it was
\* called on, d the DataSet it left and derr its error.
ValidateCalled == before # <<>>

HasDefaultFile ==
    \/ DefaultPipeline \o DotJson \in dsInput.files
    \/ DefaultPipeline \o DotYml \in dsInput.files

\* C11: the DataSet that NewDataset returns has an id without hyphen, also
\* when the id is the default {package}.{datasetDirectoryName}.
C11_ReturnedIdHasNoHyphen ==
    dpc = "built" => ~ContainsHyphen(d[1].ID)

\* C12: Validate on a DataSet whose id holds a hyphen fails with the
\* invalid-identifier error, whatever the ingest pipeline and the files of
\* the pipeline directory are.
C12_HyphenIdIsRejectedFirst ==
    (ValidateCalled /\ ContainsHyphen(before[1].ID)) => derr = "invalid-identifier"

\* C13: with an id without hyphen and no ingest pipeline, Validate fails with
\* the unused-pipelines error exactly when the directory holds a file and
\* neither default.json nor default.yml; with an empty directory it succeeds
\* and the ingest pipeline stays unset.
C13_UnusedPipelines ==
    (ValidateCalled /\ ~ContainsHyphen(before[1].ID)
        /\ before[1].IngestPipeline = <<>>) =>
        /\ derr = "unused-pipelines" <=> (dsInput.files # {} /\ ~HasDefaultFile)
        /\ dsInput.files = {} => (derr = "" /\ d[1].IngestPipeline = <<>>)

\* C14: with an id without hyphen and an ingest pipeline set, by the manifest
\* or by the default rule, Validate succeeds when {ingestPipeline}.json or
\* {ingestPipeline}.yml is in the directory and fails with the
\* missing-pipeline error when neither is.
C14_PipelineFileRequired ==
    (ValidateCalled /\ ~ContainsHyphen(before[1].ID)
        /\ d[1].IngestPipeline # <<>>) =>
        IF \E ext \in {DotJson, DotYml} :
              filepathJoin(<<pipelineDirOf(d[1]), d[1].IngestPipeline \o ext>>)
                  \in diskOf(dsInput).files
        THEN derr = ""
        ELSE derr = "missing-pipeline"

\* C15: Validate changes no field but the ingest pipeline, and that one only
\* from unset to "default" with default.json or default.yml in the directory;
\* on an error the DataSet is as it was.
C15_ValidateFrame ==
    ValidateCalled =>
        /\ d[1] = [before[1] EXCEPT !.IngestPipeline = d[1].IngestPipeline]
        /\ d[1].IngestPipeline # before[1].IngestPipeline =>
              /\ before[1].IngestPipeline = <<>>
              /\ d[1].IngestPipeline = DefaultPipeline
              /\ HasDefaultFile
        /\ derr # "" => d = before

\* C17: the DataSet returned has the id {package name}.{directory name} when
\* the manifest gives none and the id of the manifest otherwise, and the
\* release "beta" when the manifest gives none and the release of the
\* manifest otherwise.
C17_Defaults ==
    dpc = "built" =>
        /\ d[1].ID = IF dsInput.manifest.id = <<>>
                     THEN dsInput.pkgName \o <<46>>
                          \o SubSeq(dsInput.basePath, 3, Len(dsInput.basePath))
                     ELSE dsInput.manifest.id
        /\ d[1].Release = IF dsInput.manifest.release = ""
                          THEN "beta" ELSE dsInput.manifest.release

C17_Witness ==
    /\ dpc = "built"
    /\ dsInput.manifest.id = <<>>
    /\ dsInput.manifest.release = "ga"
    /\ d[1].ID = <<97, 46, 108, 111, 103>>
    /\ d[1].Release = "ga"

\* The DataSet d is what a successful call of Validate left: either the last
\* step was such a call, or NewDataset returned the DataSet of the call of
\* line 70 with the id and the release of the manifest, so that the defaults
\* of lines 76-82 changed nothing.
ResultOfValidate ==
    \/ ValidateCalled /\ derr = ""
    \/ /\ dpc = "built"
       /\ before = <<>>
       /\ d[1].ID = dsInput.manifest.id
       /\ d[1].Release = dsInput.manifest.release

\* C21: Validate is idempotent: a call of Validate on the DataSet that a
\* successful call left, against the same pipeline directory, succeeds and
\* changes no field; a DataSet whose ingest pipeline became "default" by the
\* default rule does not fail with the missing-pipeline error.
C21_ValidateIdempotent ==
    [][(ResultOfValidate /\ Validate) => (derr' = "" /\ d' = d)]_vars

\* A second call has succeeded on a DataSet whose pipeline the first call
\* set to "default".
C21_Witness ==
    /\ dpc = "built"
    /\ ValidateCalled
    /\ before[1].ID = dsInput.manifest.id
    /\ before[1].Release = dsInput.manifest.release
    /\ dsInput.manifest.ingest_pipeline = <<>>
    /\ before[1].IngestPipeline = DefaultPipeline
    /\ derr = ""
    /\ d = before

-----------------------------------------------------------------------------
(* import-beats: createMetricStreams *)

\* A flattened config entry maps option names (byte strings) to values.  A
\* value is nil, a scalar or a list; v holds the texts of its elements and
\* str tells of each whether it is a Go string (a YAML number or boolean is
\* none).
NilValue == [kind |-> "nil", v |-> <<>>, str |-> <<>>]
Scalar(text) == [kind |-> "scalar", v |-> <<text>>, str |-> <<TRUE>>]
ListWith(texts, isString) == [kind |-> "list", v |-> texts, str |-> isString]

RECURSIVE AllStrings(_)
AllStrings(n) == IF n = 0 THEN <<>> ELSE Append(AllStrings(n - 1), TRUE)

\* A list of strings.
List(texts) == ListWith(texts, AllStrings(Len(texts)))

\* "module", "metricsets", "enabled"
OptModule == <<109, 111, 100, 117, 108, 101>>
OptMetricsets == <<109, 101, 116, 114, 105, 99, 115, 101, 116, 115>>
OptEnabled == <<101, 110, 97, 98, 108, 101, 100>>

ignoredConfigOptions == <<OptModule, OptMetricsets, OptEnabled>>

\* strings.HasPrefix
stringsHasPrefix(str, prefix) ==
    Len(prefix) <= Len(str) /\ SubSeq(str, 1, Len(prefix)) = prefix

\* shouldConfigOptionBeIgnored(optionName, value)
shouldConfigOptionBeIgnored(optionName, value) ==
    \/ value.kind = "nil"
    \/ \E i \in 1..Len(ignoredConfigOptions) : ignoredConfigOptions[i] = optionName

\* isConfigEntryRelatedToMetricset: the answer and the error, "" for nil.
\* The loop of lines 209-214 ends at the first element equal to
\* datasetName; the assertion metricset.(string) of line 210 panics at an
\* element that is no string, if the loop reaches it.
isConfigEntryRelatedToMetricset(entry, datasetName) ==
    IF OptMetricsets \notin DOMAIN entry
    THEN [related |-> FALSE, err |-> "", panics |-> FALSE]
    ELSE LET metricsets == entry[OptMetricsets] IN
         IF metricsets.kind # "list"
         THEN [related |-> FALSE, err |-> "mapping-metricsets", panics |-> FALSE]
         ELSE IF Len(metricsets.v) = 0
         THEN [related |-> FALSE, err |-> "no-metricsets", panics |-> FALSE]
         ELSE LET stops == { i \in 1..Len(metricsets.v) :
                               ~metricsets.str[i] \/ metricsets.v[i] = datasetName }
                  first == CHOOSE i \in stops : \A j \in stops : i <= j
              IN IF stops = {} THEN [related |-> FALSE, err |-> "", panics |-> FALSE]
                 ELSE IF ~metricsets.str[first]
                 THEN [related |-> FALSE, err |-> "", panics |-> TRUE]
                 ELSE [related |-> TRUE, err |-> "", panics |-> FALSE]

\* No option counts as processed.
neverFound(found, name) == FALSE

\* Line 131: the option was taken from an earlier entry.
alreadyFound(found, name) == name \in found

\* Lines 126-142: the options of one entry, in the order the range over the
\* map produces them; acc holds configOptions and foundConfigEntries.
RECURSIVE rangeEntry(_, _, _, _, _)
rangeEntry(entry, order, related, datasetName, acc) ==
    IF order = <<>> THEN acc
    ELSE LET name == Head(order)
             value == entry[name]
         IN IF shouldConfigOptionBeIgnored(name, value)
            THEN rangeEntry(entry, Tail(order), related, datasetName, acc)
            ELSE IF alreadyFound(acc.found, name)
            THEN rangeEntry(entry, Tail(order), related, datasetName, acc)
            ELSE IF related \/ stringsHasPrefix(name, datasetName \o <<46>>)
            THEN rangeEntry(entry, Tail(order), related, datasetName,
                            [options |-> Append(acc.options, [default |-> value, name |-> name]),
                             found |-> acc.found \cup {name}])
            ELSE rangeEntry(entry, Tail(order), related, datasetName, acc)

\* The less function of line 147: sort.StringsAreSorted of the two names.
lessByName(a, b) == ~StrLess(b.name, a.name)

RECURSIVE insertOption(_, _)
insertOption(o, sorted) ==
    IF sorted = <<>> THEN <<o>>
    ELSE IF lessByName(Head(sorted), o) THEN <<Head(sorted)>> \o insertOption(o, Tail(sorted))
    ELSE <<o>> \o sorted

\* sort.Slice(configOptions, less)
RECURSIVE sortSlice(_)
sortSlice(options) ==
    IF options = <<>> THEN <<>>
    ELSE insertOption(Head(options), sortSlice(Tail(options)))

MaxEntries == 3

\* Dataset names "s" and "t"; options "h", "b" and "s.x".
DatasetS == <<115>>
DatasetT == <<116>>
OptH == <<104>>
OptB == <<98>>
OptSX == <<115, 46, 120>>

\* The entries a module config may hold.
ConfigEntries ==
    { (OptModule :> Scalar(<<109>>)) @@ (OptMetricsets :> List(<<DatasetS>>))
        @@ (OptH :> Scalar(<<49>>)) @@ (OptEnabled :> Scalar(<<50>>))
        @@ (OptB :> NilValue),
      (OptModule :> Scalar(<<109>>)) @@ (OptMetricsets :> List(<<DatasetT>>))
        @@ (OptH :> Scalar(<<51>>)) @@ (OptSX :> Scalar(<<52>>)),
      (OptModule :> Scalar(<<109>>)) @@ (OptH :> Scalar(<<53>>))
        @@ (OptSX :> Scalar(<<54>>)) @@ (OptB :> NilValue),
      (OptMetricsets :> List(<<DatasetT, DatasetS>>)) @@ (OptH :> Scalar(<<56>>))
        @@ (OptB :> Scalar(<<55>>)),
      (OptMetricsets :> List(<<>>)) @@ (OptB :> Scalar(<<48>>)),
      (OptMetricsets :> Scalar(<<115>>)) @@ (OptB :> Scalar(<<57>>)),
      (OptMetricsets :> ListWith(<<DatasetS, <<49>>>>, <<TRUE, FALSE>>))
        @@ (OptH :> Scalar(<<50>>)) }

ModuleConfigs == UNION { [1..n -> ConfigEntries] : n \in 0..MaxEntries }

InitStreams ==
    /\ config \in [moduleConfig : ModuleConfigs, datasetName : {DatasetS, DatasetT}]
    /\ spc = "start"
    /\ eidx = 0
    /\ configOptions = <<>>
    /\ foundConfigEntries = {}
    /\ streams = <<>>
    /\ SearchIdle
    /\ DatasetIdle

\* Lines 101-116: merge and unmarshal the config files; either may fail.  An
\* empty merged document leaves moduleConfig empty.
ReadConfig ==
    /\ spc = "start"
    /\ \E ok \in BOOLEAN :
         IF ok
         THEN /\ spc' = "entries"
              /\ eidx' = 1
         ELSE /\ spc' = "failed"
              /\ eidx' = eidx
    /\ UNCHANGED <<config, configOptions, foundConfigEntries, streams,
                   searchVars, datasetVars>>

\* Lines 118-143: one entry of moduleConfig.  A panic of line 210 ends the
\* call without a return.
ProcessEntry ==
    /\ spc = "entries"
    /\ eidx <= Len(config.moduleConfig)
    /\ LET flatEntry == config.moduleConfig[eidx]
           r == isConfigEntryRelatedToMetricset(flatEntry, config.datasetName)
       IN IF r.panics
          THEN /\ spc' = "panicked"
               /\ UNCHANGED <<eidx, configOptions, foundConfigEntries>>
          ELSE IF r.err # ""
          THEN /\ spc' = "failed"
               /\ UNCHANGED <<eidx, configOptions, foundConfigEntries>>
          ELSE \E order \in Perms(DOMAIN flatEntry) :
                 LET acc == rangeEntry(flatEntry, order, r.related, config.datasetName,
                                       [options |-> configOptions,
                                        found |-> foundConfigEntries])
                 IN /\ configOptions' = acc.options
                    /\ foundConfigEntries' = acc.found
                    /\ eidx' = eidx + 1
                    /\ spc' = spc
    /\ UNCHANGED <<config, streams, searchVars, datasetVars>>

\* Lines 145-158: sort the options and return the one stream.
ReturnStreams ==
    /\ spc = "entries"
    /\ eidx > Len(config.moduleConfig)
    /\ configOptions' = sortSlice(configOptions)
    /\ streams' = << [Input |-> "moduleName/metrics",
                      Title |-> <<"moduleTitle", config.datasetName, "metrics">>,
                      Description |-> <<"Collect", "moduleTitle", config.datasetName, "metrics">>,
                      Vars |-> sortSlice(configOptions)] >>
    /\ spc' = "returned"
    /\ UNCHANGED <<config, eidx, foundConfigEntries, searchVars, datasetVars>>

NextStreams == ReadConfig \/ ProcessEntry \/ ReturnStreams

SpecStreams == InitStreams /\ [][NextStreams]_vars

\* Option n of entry i is one that createMetricStreams takes: it has a value,
\* is not one of the ignored options, and the entry lists the metricset or
\* the name starts with datasetName + ".".
Qualifies(i, n) ==
    LET e == config.moduleConfig[i] IN
    /\ n \in DOMAIN e
    /\ e[n].kind # "nil"
    /\ n \notin {OptModule, OptMetricsets, OptEnabled}
    /\ \/ /\ OptMetricsets \in DOMAIN e
          /\ \E k \in 1..Len(e[OptMetricsets].v) :
                /\ e[OptMetricsets].str[k]
                /\ e[OptMetricsets].v[k] = config.datasetName
       \/ IsPrefix(config.datasetName \o <<46>>, n)

\* C18: createMetricStreams returns one stream; its vars are in ascending
\* order of name with no name twice, hold every option that qualifies in some
\* entry, and give each the value of the first entry in which it qualifies.
C18_FirstOccurrenceSorted ==
    spc = "returned" =>
        /\ Len(streams) = 1
        /\ LET vs == streams[1].Vars
               n == Len(config.moduleConfig)
           IN /\ \A k \in 1..(Len(vs) - 1) : StrLess(vs[k].name, vs[k + 1].name)
              /\ \A k \in 1..Len(vs) :
                   \E i \in 1..n :
                      /\ Qualifies(i, vs[k].name)
                      /\ \A j \in 1..(i - 1) : ~Qualifies(j, vs[k].name)
                      /\ vs[k].default = config.moduleConfig[i][vs[k].name]
              /\ \A i \in 1..n : \A name \in DOMAIN config.moduleConfig[i] :
                   Qualifies(i, name) => \E k \in 1..Len(vs) : vs[k].name = name

C18_Witness ==
    /\ spc = "returned"
    /\ Len(config.moduleConfig) = 3
    /\ Len(streams[1].Vars) = 3
    /\ ~Qualifies(1, OptH) /\ Qualifies(2, OptH) /\ Qualifies(3, OptH)
    /\ config.moduleConfig[2][OptH] # config.moduleConfig[3][OptH]
    /\ OptB \in DOMAIN config.moduleConfig[2]
    /\ config.moduleConfig[2][OptB].kind = "nil"
    /\ Qualifies(3, OptB)

====
